---- MODULE Spec2Model ----
(***************************************************************************)
(* A model of btrfs-snapshot (src/src/main.rs): one run of main over the   *)
(* configured snapshots, with take_snapshot, rotate_snapshot,              *)
(* mount_if_needed, unmount and maybe_run, and the rotation pass computed  *)
(* as the code computes it.                                                *)
(*                                                                         *)
(* Time is counted in whole units (a unit stands for the resolution of the *)
(* name format); a Duration is a natural number of units.                  *)
(***************************************************************************)
EXTENDS Integers, Sequences, FiniteSets, TLC

(***************************************************************************)
(* Bounds of the model: the latest date of a name, the number of names in  *)
(* a directory, the longest age and spacing of a rule, the greatest S and  *)
(* N of the evenly spaced lists, the units in a day, the advances of the   *)
(* clock during a run and the number of snapshot configs.                  *)
(***************************************************************************)
MaxTime == 4
MaxFiles == 4
MaxDur == 2
EvenMaxS == 4
EvenMaxN == 6
Day == 2
MaxTicks == 1
MaxTargets == 2

(***************************************************************************)
(* Option<usize>: None is below every Some(i) in Rust's derived ordering.  *)
(***************************************************************************)
NoRule == -1

(***************************************************************************)
(* Snapshot names.  A name is <<local, zone, wf>>: the local time and the  *)
(* UTC offset written in the name, and whether the name has the shape of   *)
(* the configured format.  DateTime::parse_from_str yields the instant     *)
(* local - zone, or fails; Local::now().format(format) writes the local    *)
(* time and offset of the machine.                                         *)
(***************************************************************************)
LocalZone == 1

ParseName(name) ==
    IF name[3] THEN [ok |-> TRUE, date |-> name[1] - name[2]]
    ELSE [ok |-> FALSE, date |-> 0]

FormatName(t) == <<t + LocalZone, LocalZone, TRUE>>

(***************************************************************************)
(* Generic sequence helpers standing for the standard library calls.       *)
(***************************************************************************)
Reverse(s) == [i \in 1..Len(s) |-> s[Len(s) + 1 - i]]

Range(s) == {s[i] : i \in 1..Len(s)}

(* sort_by_key: a stable sort, ascending by key, as the permutation it      *)
(* applies to the sequence whose keys are keys: the element at index i     *)
(* lands after every element with a smaller key and after the elements     *)
(* with an equal key that come before it.                                  *)
StableSortPerm(keys) ==
    LET pos(i) == Cardinality({j \in 1..Len(keys) :
                     \/ keys[j] < keys[i]
                     \/ keys[j] = keys[i] /\ j <= i})
    IN  [p \in 1..Len(keys) |-> CHOOSE i \in 1..Len(keys) : pos(i) = p]

(* IndexSet::insert: appends unless already present.                       *)
IndexSetInsert(s, x) == IF x \in Range(s) THEN s ELSE Append(s, x)

(***************************************************************************)
(* rotate_snapshot: the spacings table, sorted ascending by age.           *)
(* A rule is <<age, spacing>>.                                             *)
(***************************************************************************)
(* Variant: an empty table is replaced by one default rule.                *)
SortSpacings_DefaultRule(spacings) ==
    IF spacings = <<>> THEN <<<<0, 2>>>>
    ELSE LET perm == StableSortPerm([i \in 1..Len(spacings) |-> spacings[i][1]])
         IN  [p \in 1..Len(spacings) |-> spacings[perm[p]]]

(* Variant: the table is used in the order of its declaration.             *)
SortSpacings_Unsorted(spacings) == spacings

SortSpacings(spacings) ==
    LET perm == StableSortPerm([i \in 1..Len(spacings) |-> spacings[i][1]])
    IN  [p \in 1..Len(spacings) |-> spacings[perm[p]]]

(***************************************************************************)
(* rotate_snapshot: the rule of an entry of the given age: among the rules *)
(* with a <= age, the one with the greatest a (max_by_key returns the last *)
(* maximum), None if there is none.                                        *)
(***************************************************************************)
(* Variant: the first rule with a <= age instead of the one with the        *)
(* greatest a.                                                             *)
AssignRule_First(spacings, age) ==
    LET ok == {i \in 1..Len(spacings) : spacings[i][1] <= age}
    IN  IF ok = {} THEN NoRule
        ELSE (CHOOSE i \in ok : \A j \in ok : i <= j) - 1

AssignRule(spacings, age) ==
    LET ok == {i \in 1..Len(spacings) : spacings[i][1] <= age}
    IN  IF ok = {} THEN NoRule
        ELSE LET top == {i \in ok : \A j \in ok : spacings[j][1] <= spacings[i][1]}
             IN  (CHOOSE i \in top : \A j \in top : j <= i) - 1

(***************************************************************************)
(* rotate_snapshot: the catalog.  listing is the directory in read_dir     *)
(* order.  A name that does not parse is skipped; a date after now makes   *)
(* to_std fail and the whole call return the error.  The result is         *)
(* [ok, entries].                                                          *)
(***************************************************************************)
(* Variant: a name that does not parse is kept, with the default date.     *)
ReadEntries_KeepsMalformed(listing, now, spacings) ==
    LET age(f) == now - ParseName(f).date
    IN  IF \E i \in 1..Len(listing) : age(listing[i]) < 0
        THEN [ok |-> FALSE, entries |-> <<>>]
        ELSE [ok |-> TRUE,
              entries |-> [i \in 1..Len(listing) |->
                  [date |-> ParseName(listing[i]).date, file |-> listing[i],
                   rule |-> AssignRule(spacings, age(listing[i]))]]]

ReadEntries(listing, now, spacings) ==
    LET valid == SelectSeq(listing, LAMBDA f : ParseName(f).ok)
        age(f) == now - ParseName(f).date
    IN  IF \E i \in 1..Len(valid) : age(valid[i]) < 0
        THEN [ok |-> FALSE, entries |-> <<>>]
        ELSE [ok |-> TRUE,
              entries |-> [i \in 1..Len(valid) |->
                  [date |-> ParseName(valid[i]).date, file |-> valid[i],
                   rule |-> AssignRule(spacings, age(valid[i]))]]]

(* entries.sort_by_key(date); entries.reverse()                            *)
SortEntries(entries) ==
    LET perm == StableSortPerm([i \in 1..Len(entries) |-> entries[i].date])
    IN  Reverse([p \in 1..Len(entries) |-> entries[perm[p]]])

Max(a, b) == IF a >= b THEN a ELSE b

(***************************************************************************)
(* rotate_snapshot: the body of the inner loop for the pair                *)
(* (current, older) = (entries[k], entries[k+1]), with the anchor at index *)
(* newest.  st is [newest, delete, stop]; stop is the break.               *)
(***************************************************************************)
Min(a, b) == IF a <= b THEN a ELSE b

(* Variant: without the test `current.2 == Some(rule)` before the insert.  *)
SweepStep_IgnoresRule(entries, rule, target_spacing, k, st) ==
    LET current == entries[k]
        older   == entries[k + 1]
        anchor  == entries[st.newest]
        spacing == Max(anchor.date - current.date, current.date - older.date)
    IN  IF current.rule > rule
        THEN [st EXCEPT !.stop = TRUE]
        ELSE IF spacing < target_spacing
        THEN [st EXCEPT !.delete = IndexSetInsert(st.delete, current.file)]
        ELSE [st EXCEPT !.newest = k]

(* Variant: the narrower of the two gaps instead of the wider.             *)
SweepStep_MinGap(entries, rule, target_spacing, k, st) ==
    LET current == entries[k]
        older   == entries[k + 1]
        anchor  == entries[st.newest]
        spacing == Min(anchor.date - current.date, current.date - older.date)
    IN  IF current.rule > rule
        THEN [st EXCEPT !.stop = TRUE]
        ELSE IF spacing < target_spacing
        THEN IF current.rule = rule
             THEN [st EXCEPT !.delete = IndexSetInsert(st.delete, current.file)]
             ELSE st
        ELSE [st EXCEPT !.newest = k]

(* Variant: an entry already marked is not taken as the anchor.            *)
SweepStep_AnchorOnlyUnmarked(entries, rule, target_spacing, k, st) ==
    LET current == entries[k]
        older   == entries[k + 1]
        anchor  == entries[st.newest]
        spacing == Max(anchor.date - current.date, current.date - older.date)
    IN  IF current.rule > rule
        THEN [st EXCEPT !.stop = TRUE]
        ELSE IF spacing < target_spacing
        THEN IF current.rule = rule
             THEN [st EXCEPT !.delete = IndexSetInsert(st.delete, current.file)]
             ELSE st
        ELSE IF current.file \in Range(st.delete)
        THEN st
        ELSE [st EXCEPT !.newest = k]

SweepStep(entries, rule, target_spacing, k, st) ==
    LET current == entries[k]
        older   == entries[k + 1]
        anchor  == entries[st.newest]
        spacing == Max(anchor.date - current.date, current.date - older.date)
    IN  IF current.rule > rule
        THEN [st EXCEPT !.stop = TRUE]
        ELSE IF spacing < target_spacing
        THEN IF current.rule = rule
             THEN [st EXCEPT !.delete = IndexSetInsert(st.delete, current.file)]
             ELSE st
        ELSE [st EXCEPT !.newest = k]

RECURSIVE SweepFrom(_, _, _, _, _)
SweepFrom(entries, rule, target_spacing, k, st) ==
    IF k + 1 > Len(entries) \/ st.stop THEN st
    ELSE SweepFrom(entries, rule, target_spacing, k + 1,
                   SweepStep(entries, rule, target_spacing, k, st))

(* Variant: the first pair of the zip is swept too.                        *)
Sweep_FromFirstPair(entries, rule, target_spacing, delete) ==
    SweepFrom(entries, rule, target_spacing, 1,
              [newest |-> 1, delete |-> delete, stop |-> FALSE]).delete

(* One iteration of the outer loop: the sweep for one rule.  The first     *)
(* pair of the zip only yields the initial anchor, entries[1].             *)
Sweep(entries, rule, target_spacing, delete) ==
    SweepFrom(entries, rule, target_spacing, 2,
              [newest |-> 1, delete |-> delete, stop |-> FALSE]).delete

(* The anchors the sweep for one rule holds in turn: the value of `newest` *)
(* when `current` is entries[k] is the one the sweep has reached over the  *)
(* entries before k, and the last one is the one it ends with.             *)
SweepAnchors(entries, rule, target_spacing) ==
    {SweepFrom(SubSeq(entries, 1, k), rule, target_spacing, 2,
               [newest |-> 1, delete |-> <<>>, stop |-> FALSE]).newest :
       k \in 2..Len(entries)}

RECURSIVE SweepRules(_, _, _, _)
SweepRules(entries, spacings, r, delete) ==
    IF r > Len(spacings) THEN delete
    ELSE SweepRules(entries, spacings, r + 1,
                    Sweep(entries, r - 1, spacings[r][2], delete))

(***************************************************************************)
(* rotate_snapshot: the delete set (an IndexSet, in insertion order) of    *)
(* the sorted entries.  With fewer than two entries the zip is empty and   *)
(* the function returns before anything is marked.                         *)
(***************************************************************************)
MarkDeletes(entries, spacings) ==
    IF Len(entries) < 2 THEN <<>>
    ELSE SweepRules(entries, spacings, 1, <<>>)

(***************************************************************************)
(* The rotation pass of rotate_snapshot on a directory listing:            *)
(* [ok, entries, delete], ok = FALSE when the call returns an error before *)
(* anything is marked.                                                     *)
(***************************************************************************)
RotationPass(cfg_spacings, listing, now) ==
    LET spacings == SortSpacings(cfg_spacings)
        read     == ReadEntries(listing, now, spacings)
    IN  IF ~read.ok THEN [ok |-> FALSE, entries |-> <<>>, delete |-> <<>>]
        ELSE LET entries == SortEntries(read.entries)
             IN  [ok |-> TRUE, entries |-> entries,
                  delete |-> MarkDeletes(entries, spacings)]


(***************************************************************************)
(* The state of a run.                                                     *)
(*   snapshots      config.snapshots: a sequence of [mount_point,          *)
(*                  snapshot_dir, spacings]; the name of a snapshot config *)
(*                  is its key in the IndexMap, here its index             *)
(*   dry_run, do_take, do_rotate, only_snapshot   the command line         *)
(*   clock, ticks   the wall clock and how often it has advanced           *)
(*   disk           the contents of each snapshot directory, in read_dir   *)
(*                  order                                                  *)
(*   mounted        the mount points the `mount` listing shows             *)
(*   manual_mounts  State::manual_mounts, an IndexSet in insertion order   *)
(*   pc, idx, taken main's position: the index of the snapshot config the  *)
(*                  loop is at and whether its take_snapshot has returned  *)
(*   cmds           history: the commands executed, <<program, arg, ok>>   *)
(*   printed        history: the commands maybe_run printed instead of     *)
(*                  running them, <<program, arg>>                         *)
(*   processed      history: the configs whose take or rotate was called   *)
(*   calls          history: the calls main made, in order: <<"take", i>>, *)
(*                  <<"rotate", i>> for config i, <<"unmount", 0>>         *)
(*   passes         history: the rotation passes computed, each            *)
(*                  [snapshot, now, listing, ok, entries, delete]          *)
(***************************************************************************)
VARIABLES snapshots, dry_run, do_take, do_rotate, only_snapshot,
          clock, ticks, disk, mounted, manual_mounts,
          pc, idx, taken, cmds, printed, processed, calls, passes

vars == <<snapshots, dry_run, do_take, do_rotate, only_snapshot,
          clock, ticks, disk, mounted, manual_mounts,
          pc, idx, taken, cmds, printed, processed, calls, passes>>

config == <<snapshots, dry_run, do_take, do_rotate, only_snapshot>>

MountPoints == {"/mnt/a", "/mnt/b"}

(***************************************************************************)
(* mount_if_needed.  fault names what the environment makes fail:          *)
(* "none", "list" (the `mount` listing) or "mount" (the mount itself).     *)
(* The result is [ok, manual_mounts, mounted, cmds].                       *)
(***************************************************************************)
(* Variant: a mount point found already mounted is recorded as owned.      *)
MountIfNeeded_RecordsExternal(mount_point, fault) ==
    LET same == [ok |-> TRUE, manual_mounts |-> manual_mounts,
                 mounted |-> mounted, cmds |-> cmds]
        listed == Append(cmds, <<"mount", "", fault # "list">>)
    IN  IF mount_point \in Range(manual_mounts) THEN same
        ELSE IF fault = "list"
        THEN [same EXCEPT !.ok = FALSE, !.cmds = listed]
        ELSE IF mount_point \in mounted
        THEN [same EXCEPT !.cmds = listed,
                          !.manual_mounts = IndexSetInsert(manual_mounts, mount_point)]
        ELSE IF fault = "mount"
        THEN [same EXCEPT !.ok = FALSE,
                          !.cmds = Append(listed, <<"mount", mount_point, FALSE>>)]
        ELSE [ok |-> TRUE,
              manual_mounts |-> IndexSetInsert(manual_mounts, mount_point),
              mounted |-> mounted \cup {mount_point},
              cmds |-> Append(listed, <<"mount", mount_point, TRUE>>)]

(* Variant: without the two early returns.                                 *)
MountIfNeeded_NoChecks(mount_point, fault) ==
    IF fault = "mount"
    THEN [ok |-> FALSE, manual_mounts |-> manual_mounts, mounted |-> mounted,
          cmds |-> Append(cmds, <<"mount", mount_point, FALSE>>)]
    ELSE [ok |-> TRUE,
          manual_mounts |-> IndexSetInsert(manual_mounts, mount_point),
          mounted |-> mounted \cup {mount_point},
          cmds |-> Append(cmds, <<"mount", mount_point, TRUE>>)]

MountIfNeeded(mount_point, fault) ==
    LET same == [ok |-> TRUE, manual_mounts |-> manual_mounts,
                 mounted |-> mounted, cmds |-> cmds]
        listed == Append(cmds, <<"mount", "", fault # "list">>)
    IN  IF mount_point \in Range(manual_mounts) THEN same
        ELSE IF fault = "list"
        THEN [same EXCEPT !.ok = FALSE, !.cmds = listed]
        ELSE IF mount_point \in mounted
        THEN [same EXCEPT !.cmds = listed]
        ELSE IF fault = "mount"
        THEN [same EXCEPT !.ok = FALSE,
                          !.cmds = Append(listed, <<"mount", mount_point, FALSE>>)]
        ELSE [ok |-> TRUE,
              manual_mounts |-> IndexSetInsert(manual_mounts, mount_point),
              mounted |-> mounted \cup {mount_point},
              cmds |-> Append(listed, <<"mount", mount_point, TRUE>>)]

MountFaults == {"none", "list", "mount"}

(***************************************************************************)
(* maybe_run: with dry_run the command is printed and nothing runs;        *)
(* otherwise it runs and may fail.  The result is [ok, ran].               *)
(***************************************************************************)
(* Variant: without the dry_run branch.                                    *)
MaybeRun_IgnoresDryRun(fails) == [ok |-> ~fails, ran |-> TRUE]

MaybeRun(fails) ==
    IF dry_run THEN [ok |-> TRUE, ran |-> FALSE]
    ELSE [ok |-> ~fails, ran |-> TRUE]

(* main: the only-snapshot filter.                                         *)
Selected(i) == only_snapshot.given => i \in only_snapshot.names

AtSnapshot == pc = "loop" /\ idx <= Len(snapshots)

(* Variant: unmount is reached from inside the loop as well.               *)
AfterLoop_PerTarget == pc = "loop"

(* main: the loop has gone through every config.                           *)
AfterLoop == pc = "loop" /\ idx > Len(snapshots)

(* main: `continue` for a snapshot config the command line did not name.   *)
SkipSnapshot ==
    /\ AtSnapshot
    /\ ~Selected(idx)
    /\ idx' = idx + 1
    /\ UNCHANGED <<config, clock, ticks, disk, mounted, manual_mounts, pc,
                   taken, cmds, printed, processed, calls, passes>>

(***************************************************************************)
(* take_snapshot, and main's `?` on its result.  The snapshot command      *)
(* fails when the environment makes it fail or when the path exists; the   *)
(* new name shows up at the front or at the end of the directory.          *)
(***************************************************************************)
TakeSnapshot ==
    /\ AtSnapshot
    /\ Selected(idx)
    /\ do_take /\ ~taken
    /\ \E fault \in MountFaults, fails \in BOOLEAN, front \in BOOLEAN :
         LET snapshot == snapshots[idx]
             m    == MountIfNeeded(snapshot.mount_point, fault)
             dir  == snapshot.snapshot_dir
             path == FormatName(clock)
             r    == MaybeRun(fails \/ path \in Range(disk[dir]))
         IN  /\ processed' = processed \cup {idx}
             /\ calls' = Append(calls, <<"take", idx>>)
             /\ manual_mounts' = m.manual_mounts
             /\ mounted' = m.mounted
             /\ IF ~m.ok
                THEN /\ cmds' = m.cmds
                     /\ pc' = "failed"
                     /\ UNCHANGED <<disk, taken, printed>>
                ELSE /\ cmds' = IF r.ran
                                THEN Append(m.cmds, <<"snapshot", path, r.ok>>)
                                ELSE m.cmds
                     /\ printed' = IF r.ran THEN printed
                                   ELSE Append(printed, <<"snapshot", path>>)
                     /\ disk' = IF r.ran /\ r.ok
                                THEN [disk EXCEPT ![dir] =
                                        IF front THEN <<path>> \o @
                                        ELSE Append(@, path)]
                                ELSE disk
                     /\ IF r.ok
                        THEN taken' = TRUE /\ pc' = pc
                        ELSE taken' = taken /\ pc' = "failed"
    /\ UNCHANGED <<config, clock, ticks, idx, passes>>

(* main: a selected config in a run that only takes snapshots.             *)
NextSnapshot ==
    /\ AtSnapshot
    /\ Selected(idx)
    /\ do_take => taken
    /\ ~do_rotate
    /\ idx' = idx + 1
    /\ taken' = FALSE
    /\ UNCHANGED <<config, clock, ticks, disk, mounted, manual_mounts, pc,
                   cmds, printed, processed, calls, passes>>

(***************************************************************************)
(* The delete loop of rotate_snapshot: the commands for the first          *)
(* fail_at - 1 files succeed and the one for file fail_at fails            *)
(* (fail_at = 0: none fails).  Where maybe_run does not run the command,   *)
(* nothing runs and every command is printed.                              *)
(***************************************************************************)
DeleteRan(delete, fail_at) ==
    IF ~MaybeRun(FALSE).ran THEN <<>>
    ELSE IF fail_at = 0 THEN delete
    ELSE SubSeq(delete, 1, fail_at)

DeleteOk(delete, fail_at) == ~MaybeRun(FALSE).ran \/ fail_at = 0

DeletePrinted(delete) ==
    IF MaybeRun(FALSE).ran THEN <<>>
    ELSE [i \in 1..Len(delete) |-> <<"delete", delete[i]>>]

DeleteCmds(delete, fail_at) ==
    LET ran == DeleteRan(delete, fail_at)
    IN  [i \in 1..Len(ran) |-> <<"delete", ran[i], i # fail_at>>]

DeleteGone(delete, fail_at) ==
    LET ran == DeleteRan(delete, fail_at)
    IN  {ran[i] : i \in {j \in 1..Len(ran) : j # fail_at}}

(***************************************************************************)
(* rotate_snapshot, and main's `?` on its result.  read_fails is read_dir  *)
(* failing.                                                                *)
(***************************************************************************)
RotateSnapshot ==
    /\ AtSnapshot
    /\ Selected(idx)
    /\ do_take => taken
    /\ do_rotate
    /\ \E fault \in MountFaults, read_fails \in BOOLEAN :
         LET snapshot == snapshots[idx]
             m    == MountIfNeeded(snapshot.mount_point, fault)
             dir  == snapshot.snapshot_dir
             now  == clock
             pass == RotationPass(snapshot.spacings, disk[dir], now)
         IN  /\ processed' = processed \cup {idx}
             /\ calls' = Append(calls, <<"rotate", idx>>)
             /\ manual_mounts' = m.manual_mounts
             /\ mounted' = m.mounted
             /\ IF ~m.ok \/ read_fails \/ ~pass.ok
                THEN /\ cmds' = m.cmds
                     /\ pc' = "failed"
                     /\ passes' = IF m.ok /\ ~read_fails
                                  THEN Append(passes,
                                         [snapshot |-> idx, now |-> now,
                                          listing |-> disk[dir], ok |-> FALSE,
                                          entries |-> <<>>, delete |-> <<>>])
                                  ELSE passes
                     /\ UNCHANGED <<disk, idx, taken, printed>>
                ELSE \E fail_at \in 0..Len(pass.delete) :
                     /\ passes' = Append(passes,
                                    [snapshot |-> idx, now |-> now,
                                     listing |-> disk[dir], ok |-> TRUE,
                                     entries |-> pass.entries,
                                     delete |-> pass.delete])
                     /\ cmds' = m.cmds \o DeleteCmds(pass.delete, fail_at)
                     /\ printed' = printed \o DeletePrinted(pass.delete)
                     /\ disk' = [disk EXCEPT ![dir] =
                                   SelectSeq(@, LAMBDA f :
                                     f \notin DeleteGone(pass.delete, fail_at))]
                     /\ IF DeleteOk(pass.delete, fail_at)
                        THEN idx' = idx + 1 /\ taken' = FALSE /\ pc' = pc
                        ELSE idx' = idx /\ taken' = taken /\ pc' = "failed"
    /\ UNCHANGED <<config, clock, ticks>>

(***************************************************************************)
(* unmount, called by main after the loop, and main's `?` on its result:   *)
(* the set is taken, and each mount point is unmounted in turn until a     *)
(* umount fails.                                                           *)
(***************************************************************************)
Unmount ==
    /\ AfterLoop
    /\ \E fail_at \in 0..Len(manual_mounts) :
         LET queue == manual_mounts
             ran   == IF fail_at = 0 THEN queue ELSE SubSeq(queue, 1, fail_at)
         IN  /\ manual_mounts' = <<>>
             /\ cmds' = cmds \o [i \in 1..Len(ran) |-> <<"umount", ran[i], i # fail_at>>]
             /\ mounted' = mounted \ {ran[i] : i \in {j \in 1..Len(ran) : j # fail_at}}
             /\ pc' = IF fail_at = 0 THEN "done" ELSE "failed"
    /\ calls' = Append(calls, <<"unmount", 0>>)
    /\ UNCHANGED <<config, clock, ticks, disk, idx, taken, printed, processed,
                   passes>>

(* The wall clock advances between two steps of the run.                   *)
Tick ==
    /\ pc = "loop"
    /\ ticks < MaxTicks
    /\ clock' = clock + 1
    /\ ticks' = ticks + 1
    /\ UNCHANGED <<config, disk, mounted, manual_mounts, pc, idx, taken,
                   cmds, printed, processed, calls, passes>>

Next ==
    \/ SkipSnapshot
    \/ TakeSnapshot
    \/ NextSnapshot
    \/ RotateSnapshot
    \/ Unmount
    \/ Tick

(***************************************************************************)
(* Initial states.  A run starts in main after the configuration has been  *)
(* read: nothing mounted by the run, the loop at the first config.         *)
(***************************************************************************)
NameOf(date, zone) == <<date + zone, zone, TRUE>>

Malformed == <<0, 0, FALSE>>

StartOfRun ==
    /\ ticks = 0
    /\ manual_mounts = <<>>
    /\ pc = "loop"
    /\ idx = 1
    /\ taken = FALSE
    /\ cmds = <<>>
    /\ printed = <<>>
    /\ processed = {}
    /\ calls = <<>>
    /\ passes = <<>>

CommandLines ==
    [dry_run : BOOLEAN, do_take : BOOLEAN, do_rotate : BOOLEAN,
     only_snapshot : [given : {FALSE}, names : {{}}] \cup
                     [given : {TRUE}, names : {{i} : i \in 0..MaxTargets}]]

(* Several configs with their mount points, each with its own directory    *)
(* holding snapshots of the last five units and a stray file.              *)
RunSpacings == <<<<0, 2>>>>

RunListing == <<NameOf(4, 0), NameOf(3, 1), Malformed, NameOf(2, 0), NameOf(1, 0),
                NameOf(0, 0)>>

RunOver(mp) ==
    /\ StartOfRun
    /\ snapshots = [i \in 1..Len(mp) |->
                      [mount_point |-> mp[i], snapshot_dir |-> i,
                       spacings |-> RunSpacings]]
    /\ \E c \in CommandLines :
         /\ c.do_take \/ c.do_rotate
         /\ dry_run = c.dry_run
         /\ do_take = c.do_take
         /\ do_rotate = c.do_rotate
         /\ only_snapshot = c.only_snapshot
    /\ clock = 4
    /\ disk = [d \in 1..MaxTargets |-> RunListing]
    /\ mounted \in {{}, {"/mnt/a"}}

Init == \E n \in 1..MaxTargets : \E mp \in [1..n -> MountPoints] : RunOver(mp)

Spec == Init /\ [][Next]_vars

(* The runs over a single config, under every command line.                *)
InitOneConfig == RunOver(<<"/mnt/a">>)

(***************************************************************************)
(* Inputs of the rotation pass: one config whose directory holds up to     *)
(* MaxFiles names: names dated 0..MaxTime, a second name for the date 1    *)
(* written in the other zone, and a malformed one; under a table of one or *)
(* two rules.  The clock starts one unit before MaxTime, so the newest     *)
(* name may lie in the future.                                             *)
(***************************************************************************)
NameUniverse ==
    {NameOf(d, 0) : d \in 0..MaxTime} \cup {NameOf(1, 1)} \cup {Malformed}

NameBefore(a, b) ==
    \/ a[1] < b[1]
    \/ a[1] = b[1] /\ a[2] < b[2]
    \/ a[1] = b[1] /\ a[2] = b[2] /\ ~a[3] /\ b[3]

InNameOrder(S) ==
    [p \in 1..Cardinality(S) |->
       CHOOSE f \in S : Cardinality({g \in S : NameBefore(g, f)}) = p - 1]

HasTie(S) ==
    \E f, g \in S : f # g /\ f[3] /\ g[3] /\ ParseName(f).date = ParseName(g).date

(* The order of the listing only decides the order of entries with equal   *)
(* dates, so the reverse order is drawn for the sets that have such a pair. *)
Listings ==
    LET sets == {S \in SUBSET NameUniverse : Cardinality(S) <= MaxFiles}
    IN  {InNameOrder(S) : S \in sets} \cup
        {Reverse(InNameOrder(S)) : S \in {T \in sets : HasTie(T)}}

Rules == (0..MaxDur) \X (1..MaxDur)

(* The table may be empty (read_config defaults a missing spacings map to   *)
(* the empty map).  Two rules are declared with the older one first, so     *)
(* that the table has to be sorted.                                        *)
RuleTables ==
    {<<>>} \cup {<<r>> : r \in Rules} \cup
    {t \in {<<r1, r2>> : r1 \in Rules, r2 \in Rules} : t[1][1] > t[2][1]}

InitRotate ==
    /\ StartOfRun
    /\ \E t \in RuleTables :
         snapshots = <<[mount_point |-> "/mnt/a", snapshot_dir |-> 1, spacings |-> t]>>
    /\ dry_run = FALSE
    /\ do_take = FALSE
    /\ do_rotate = TRUE
    /\ only_snapshot = [given |-> FALSE, names |-> {}]
    /\ clock = MaxTime - 1
    /\ \E l \in Listings : disk = [d \in 1..MaxTargets |-> IF d = 1 THEN l ELSE <<>>]
    /\ mounted = {"/mnt/a"}

SpecRotate == (InitRotate \/ InitOneConfig) /\ [][Next]_vars

(* A run that only rotates the one config whose directory holds listing.   *)
RotateOnly(table, listing, now) ==
    /\ StartOfRun
    /\ snapshots = <<[mount_point |-> "/mnt/a", snapshot_dir |-> 1, spacings |-> table]>>
    /\ dry_run \in BOOLEAN
    /\ do_take = FALSE
    /\ do_rotate = TRUE
    /\ only_snapshot = [given |-> FALSE, names |-> {}]
    /\ clock = now
    /\ disk = [d \in 1..MaxTargets |-> IF d = 1 THEN listing ELSE <<>>]
    /\ mounted \in {{}, {"/mnt/a"}}

(***************************************************************************)
(* Evenly spaced entries under the single rule {0, S}: n entries, the      *)
(* newest dated now, each gap units older than the one before, with        *)
(* gap < S <= 2 * gap.                                                     *)
(***************************************************************************)
EvenListing(n, gap, now) == [i \in 1..n |-> NameOf(now - (n - i) * gap, 0)]

InitEven ==
    \E S \in 2..EvenMaxS, n \in 2..EvenMaxN :
      \E gap \in {g \in 1..(S - 1) : S <= 2 * g} :
        RotateOnly(<<<<0, S>>>>, EvenListing(n, gap, 0), 0)

SpecEven == (InitEven \/ InitOneConfig) /\ [][Next]_vars

(***************************************************************************)
(* Longer lists under two rules (0, s1) and (a, s2): one entry more than   *)
(* MaxFiles, at distinct dates up to the clock.                            *)
(***************************************************************************)
InitIdem ==
    \E D \in SUBSET (0..(MaxTime + 1)) :
      \E a \in 1..(MaxDur + 2), s1 \in 1..(MaxDur + 1), s2 \in 1..(MaxDur + 1) :
        /\ Cardinality(D) = MaxFiles + 1
        /\ RotateOnly(<<<<a, s2>>, <<0, s1>>>>,
                      InNameOrder({NameOf(d, 0) : d \in D}), MaxTime + 1)

SpecIdem == (InitIdem \/ InitOneConfig) /\ [][Next]_vars

(***************************************************************************)
(* Scenario A: the rules [(0, 1 day), (7 days, 7 days)]; ten entries one   *)
(* day apart, the newest of them off units old, and entries aged 14, 21,   *)
(* 28 and 35 days.  A day is Day units.                                    *)
(***************************************************************************)
ScenarioATable == <<<<0, Day>>, <<7 * Day, 7 * Day>>>>

ScenarioAAges(off) ==
    {off + i * Day : i \in 0..9} \cup {14 * Day, 21 * Day, 28 * Day, 35 * Day}

ScenarioAListing(off, now) == InNameOrder({NameOf(now - a, 0) : a \in ScenarioAAges(off)})

InitScenarioA ==
    \E off \in 0..Day :
      RotateOnly(ScenarioATable, ScenarioAListing(off, 35 * Day), 35 * Day)

SpecScenarioA == (InitScenarioA \/ InitOneConfig) /\ [][Next]_vars

(***************************************************************************)
(* History read off the command log.                                       *)
(***************************************************************************)
Attempts(program, arg) ==
    Cardinality({i \in 1..Len(cmds) : cmds[i][1] = program /\ cmds[i][2] = arg})

(* The mount points this run itself mounted.                               *)
MountedByRun == {mp \in MountPoints : <<"mount", mp, TRUE>> \in Range(cmds)}

RunEnded == pc \in {"done", "failed"}

(***************************************************************************)
(* C3: in every run, when the run has ended (also after a failed           *)
(* take_snapshot or rotate_snapshot), exactly one umount has been          *)
(* attempted for every mount point the run mounted.                        *)
(***************************************************************************)
C3_UnmountAttemptedAtEnd ==
    RunEnded => \A mp \in MountedByRun : Attempts("umount", mp) = 1

(***************************************************************************)
(* C4: a failure while processing one snapshot config does not abort the   *)
(* others: when the run has ended, take_snapshot or rotate_snapshot has    *)
(* been called for every selected config.                                  *)
(***************************************************************************)
C4_LaterTargetsProcessed ==
    RunEnded => \A i \in 1..Len(snapshots) : Selected(i) => i \in processed

(***************************************************************************)
(* C5: umount is issued only for mount points this run itself mounted, and *)
(* a mount point that is mounted but not by this run is not in             *)
(* manual_mounts and no mount command was issued for it.                   *)
(***************************************************************************)
C5_OnlyOwnMountsUnmounted ==
    /\ \A i \in 1..Len(cmds) :
         cmds[i][1] = "umount" =>
           \E j \in 1..(i - 1) : cmds[j] = <<"mount", cmds[i][2], TRUE>>
    /\ \A mp \in mounted \ MountedByRun :
         /\ mp \notin Range(manual_mounts)
         /\ Attempts("mount", mp) = 0

(* A finished run that processed a config on an externally mounted mount   *)
(* point, left it mounted, and unmounted another one it had mounted.       *)
C5_Witness ==
    /\ pc = "done"
    /\ \E i \in processed :
         /\ snapshots[i].mount_point \in mounted \ MountedByRun
         /\ Attempts("umount", snapshots[i].mount_point) = 0
    /\ \E mp \in MountedByRun : Attempts("umount", mp) = 1

(***************************************************************************)
(* C10: within one run every mount point is mounted by the run at most     *)
(* once and unmounted by the run at most once.                             *)
(***************************************************************************)
C10_MountedOnceUnmountedOnce ==
    \A mp \in MountPoints :
      /\ Attempts("mount", mp) <= 1
      /\ Attempts("umount", mp) <= 1

(* Two configs on one mount point, both taken and rotated, one mount and   *)
(* one umount.                                                             *)
C10_Witness ==
    /\ pc = "done"
    /\ do_take /\ do_rotate
    /\ \E i, j \in processed :
         /\ i # j
         /\ snapshots[i].mount_point = snapshots[j].mount_point
         /\ Attempts("mount", snapshots[i].mount_point) = 1
         /\ Attempts("umount", snapshots[i].mount_point) = 1

(***************************************************************************)
(* The names a rotation pass leaves in its listing.                        *)
(***************************************************************************)
Survivors(pass) == SelectSeq(pass.listing, LAMBDA f : f \notin Range(pass.delete))

Spacings(pass) == snapshots[pass.snapshot].spacings

(***************************************************************************)
(* C1: rotation is idempotent: for every rotation pass of the run, the     *)
(* same pass on the survivors, against the same now, marks nothing.        *)
(***************************************************************************)
C1_RotationIdempotent ==
    \A i \in 1..Len(passes) :
      passes[i].ok =>
        RotationPass(Spacings(passes[i]), Survivors(passes[i]), passes[i].now).delete = <<>>

(***************************************************************************)
(* C2: an entry whose age is below every rule's min_age is never in the    *)
(* delete set of a rotation pass, and no delete command is issued for it.  *)
(***************************************************************************)
BelowEveryRule(pass, f) ==
    /\ ParseName(f).ok
    /\ \A r \in Range(Spacings(pass)) : pass.now - ParseName(f).date < r[1]

C2_NoRuleNeverDeleted ==
    \A i \in 1..Len(passes) : \A f \in Range(passes[i].listing) :
      BelowEveryRule(passes[i], f) =>
        /\ f \notin Range(passes[i].delete)
        /\ Attempts("delete", f) = 0

(* A finished run whose pass had an entry younger than every rule in the   *)
(* middle of the list, closer to both neighbours than the spacing of the   *)
(* first rule.                                                             *)
C2_Witness ==
    \E i \in 1..Len(passes) :
      LET pass == passes[i]
          e    == pass.entries
      IN  /\ pass.ok
          /\ ~dry_run
          /\ pc = "done"
          /\ Spacings(pass) # <<>>
          /\ \E k \in 2..(Len(e) - 1) :
               /\ BelowEveryRule(pass, e[k].file)
               /\ e[k - 1].date - e[k].date < SortSpacings(Spacings(pass))[1][2]
               /\ e[k].date - e[k + 1].date < SortSpacings(Spacings(pass))[1][2]

(***************************************************************************)
(* C6: evenly spaced entries under the single rule {0, S}.                 *)
(***************************************************************************)
EvenlySpaced(pass) ==
    /\ pass.ok
    /\ Len(Spacings(pass)) = 1
    /\ Spacings(pass)[1][1] = 0
    /\ Len(pass.entries) >= 2
    /\ \E gap \in 1..(Spacings(pass)[1][2] - 1) :
         /\ Spacings(pass)[1][2] <= 2 * gap
         /\ \A k \in 1..(Len(pass.entries) - 1) :
              pass.entries[k].date - pass.entries[k + 1].date = gap

EvenPositions(pass) == {k \in 1..Len(pass.entries) : k % 2 = 0}

(* C6 as stated: exactly every other entry survives, starting with the     *)
(* newest: the delete set is the entries at the even positions of the      *)
(* newest-first list, for any N >= 2.                                      *)
C6_ExactlyAlternating ==
    \A i \in 1..Len(passes) :
      EvenlySpaced(passes[i]) =>
        Range(passes[i].delete) =
          {passes[i].entries[k].file : k \in EvenPositions(passes[i])}

(* C6 amended: the delete set is the entries at the even positions other   *)
(* than the oldest entry: the survivors alternate, starting with the       *)
(* newest, and the oldest entry always survives.                           *)
C6_AlternatingButOldest ==
    \A i \in 1..Len(passes) :
      EvenlySpaced(passes[i]) =>
        Range(passes[i].delete) =
          {passes[i].entries[k].file :
             k \in EvenPositions(passes[i]) \ {Len(passes[i].entries)}}

(* An evenly spaced list of even length, at least four, of which the run   *)
(* has deleted entries: its oldest entry is at an even position.           *)
C6_Witness ==
    \E i \in 1..Len(passes) :
      /\ EvenlySpaced(passes[i])
      /\ Len(passes[i].entries) >= 4
      /\ Len(passes[i].entries) % 2 = 0
      /\ passes[i].delete # <<>>
      /\ \A f \in Range(passes[i].delete) : <<"delete", f, TRUE>> \in Range(cmds)

(***************************************************************************)
(* C7: Scenario A.                                                         *)
(***************************************************************************)
IsScenarioA(pass, off) ==
    /\ pass.ok
    /\ Spacings(pass) = ScenarioATable
    /\ Range(pass.listing) = {NameOf(pass.now - a, 0) : a \in ScenarioAAges(off)}

SurvivingEntries(pass) ==
    SelectSeq(pass.entries, LAMBDA e : e.file \notin Range(pass.delete))

(* The entry after e in the newest-first list of the pass (e is not the    *)
(* oldest).                                                                *)
NextOlder(pass, e) ==
    pass.entries[1 + CHOOSE k \in 1..Len(pass.entries) : pass.entries[k] = e]

Oldest(pass) == pass.entries[Len(pass.entries)]

(* C7 as stated: two adjacent survivors both younger than 7 days are at    *)
(* least 1 day apart, and two adjacent survivors both 7 days old or older  *)
(* are at least 7 days apart.                                              *)
C7_SurvivorsSpaced ==
    \A i \in 1..Len(passes) : \A off \in 0..Day :
      IsScenarioA(passes[i], off) =>
        LET sv == SurvivingEntries(passes[i])
            age(e) == passes[i].now - e.date
        IN  \A k \in 1..(Len(sv) - 1) :
              /\ age(sv[k]) < 7 * Day /\ age(sv[k + 1]) < 7 * Day
                   => sv[k].date - sv[k + 1].date >= Day
              /\ age(sv[k]) >= 7 * Day /\ age(sv[k + 1]) >= 7 * Day
                   => sv[k].date - sv[k + 1].date >= 7 * Day

(* C7 amended: two adjacent survivors both younger than 7 days are at      *)
(* least 1 day apart; of two adjacent survivors both 7 days old or older,  *)
(* the older one is at least 7 days from the newer one or at least 7 days  *)
(* from the next older entry of the list, or it is the oldest entry.       *)
C7_SurvivorsSpacedOneSide ==
    \A i \in 1..Len(passes) : \A off \in 0..Day :
      IsScenarioA(passes[i], off) =>
        LET sv == SurvivingEntries(passes[i])
            age(e) == passes[i].now - e.date
        IN  \A k \in 1..(Len(sv) - 1) :
              /\ age(sv[k]) < 7 * Day /\ age(sv[k + 1]) < 7 * Day
                   => sv[k].date - sv[k + 1].date >= Day
              /\ age(sv[k]) >= 7 * Day /\ age(sv[k + 1]) >= 7 * Day
                   => \/ sv[k].date - sv[k + 1].date >= 7 * Day
                      \/ sv[k + 1] = Oldest(passes[i])
                      \/ sv[k + 1].date - NextOlder(passes[i], sv[k + 1]).date >= 7 * Day

(* Scenario A with the daily entries not starting at now: after the pass   *)
(* two adjacent survivors older than 7 days are less than 7 days apart.    *)
C7_Witness ==
    \E i \in 1..Len(passes) : \E off \in 1..Day :
      /\ IsScenarioA(passes[i], off)
      /\ passes[i].delete # <<>>
      /\ LET sv == SurvivingEntries(passes[i])
         IN  \E k \in 1..(Len(sv) - 1) :
               /\ passes[i].now - sv[k].date >= 7 * Day
               /\ sv[k].date - sv[k + 1].date < 7 * Day

(***************************************************************************)
(* C8: an entry that is the only entry assigned to its tier.               *)
(***************************************************************************)
SoleOfItsTier(pass, k) ==
    /\ pass.entries[k].rule # NoRule
    /\ \A j \in 1..Len(pass.entries) :
         pass.entries[j].rule = pass.entries[k].rule => j = k

(* C8 as stated: the only entry of its tier is never in the delete set.    *)
C8_SoleEntryNeverDeleted ==
    \A i \in 1..Len(passes) : \A k \in 1..Len(passes[i].entries) :
      SoleOfItsTier(passes[i], k) =>
        passes[i].entries[k].file \notin Range(passes[i].delete)

(* C8 amended: the only entry of its tier is in the delete set only if it  *)
(* has a newer and an older neighbour in the list and is closer to both    *)
(* than its tier's min_spacing; as the newest or the oldest entry of the   *)
(* list it is never deleted.                                               *)
C8_SoleEntryDeletedOnlyBetween ==
    \A i \in 1..Len(passes) : \A k \in 1..Len(passes[i].entries) :
      LET e == passes[i].entries
          S == SortSpacings(Spacings(passes[i]))[e[k].rule + 1][2]
      IN  SoleOfItsTier(passes[i], k) /\ e[k].file \in Range(passes[i].delete) =>
            /\ 1 < k /\ k < Len(e)
            /\ e[k - 1].date - e[k].date < S
            /\ e[k].date - e[k + 1].date < S

(* A pass whose newest or oldest entry is the only one of its tier and is  *)
(* closer to its neighbour than its tier's min_spacing, and a pass that    *)
(* deleted something.                                                      *)
C8_Witness ==
    \E i \in 1..Len(passes) :
      LET e == passes[i].entries
          S(k) == SortSpacings(Spacings(passes[i]))[e[k].rule + 1][2]
      IN  /\ passes[i].delete # <<>>
          /\ \/ SoleOfItsTier(passes[i], 1) /\ e[1].date - e[2].date < S(1)
             \/ /\ SoleOfItsTier(passes[i], Len(e))
                /\ e[Len(e) - 1].date - e[Len(e)].date < S(Len(e))

(***************************************************************************)
(* C9: a directory item whose name does not parse is skipped: the pass     *)
(* succeeds or fails, and marks, exactly as on the parseable items alone;  *)
(* the item is not marked and no delete command is issued for it.          *)
(***************************************************************************)
Parseable(listing) == SelectSeq(listing, LAMBDA f : f[3])

C9_MalformedSkipped ==
    \A i \in 1..Len(passes) :
      LET pass == passes[i]
          ref  == RotationPass(Spacings(pass), Parseable(pass.listing), pass.now)
      IN  /\ pass.ok = ref.ok
          /\ pass.delete = ref.delete
          /\ \A f \in Range(pass.listing) :
               ~f[3] => f \notin Range(pass.delete) /\ Attempts("delete", f) = 0

(* A pass over a listing with a malformed name between two parseable ones  *)
(* that deleted an entry.                                                  *)
C9_Witness ==
    \E i \in 1..Len(passes) :
      LET l == passes[i].listing
      IN  /\ passes[i].ok
          /\ \E a, b, c \in 1..Len(l) : a < b /\ b < c /\ l[a][3] /\ ~l[b][3] /\ l[c][3]
          /\ \E f \in Range(passes[i].delete) : <<"delete", f, TRUE>> \in Range(cmds)

(***************************************************************************)
(* C11: a rotation pass over a list of fewer than three entries marks      *)
(* nothing, whatever the tier table: with exactly two entries both         *)
(* survive.                                                                *)
(***************************************************************************)
C11_TwoEntriesSurvive ==
    \A i \in 1..Len(passes) :
      Len(Parseable(passes[i].listing)) < 3 => passes[i].delete = <<>>

(* A finished run whose pass had exactly two entries, both governed by a   *)
(* rule whose min_spacing is wider than the gap between them.              *)
C11_Witness ==
    \E i \in 1..Len(passes) :
      LET e == passes[i].entries
      IN  /\ passes[i].ok
          /\ ~dry_run
          /\ pc = "done"
          /\ Len(e) = 2
          /\ e[1].rule # NoRule
          /\ e[1].rule = e[2].rule
          /\ e[1].date - e[2].date
               < SortSpacings(Spacings(passes[i]))[e[1].rule + 1][2]

(***************************************************************************)
(* C12: with an empty tier table every entry is assigned no tier and the   *)
(* delete set of the pass is empty, for every non-empty entry list.        *)
(***************************************************************************)
C12_EmptyTableDeletesNothing ==
    \A i \in 1..Len(passes) :
      (passes[i].ok /\ Spacings(passes[i]) = <<>>) =>
        /\ passes[i].delete = <<>>
        /\ \A k \in 1..Len(passes[i].entries) :
             passes[i].entries[k].rule = NoRule

(* A finished run over an empty table and at least three entries, the      *)
(* middle one a day or less from both neighbours.                          *)
C12_Witness ==
    \E i \in 1..Len(passes) :
      LET e == passes[i].entries
      IN  /\ passes[i].ok
          /\ ~dry_run
          /\ pc = "done"
          /\ Spacings(passes[i]) = <<>>
          /\ \E k \in 2..(Len(e) - 1) :
               /\ e[k - 1].date - e[k].date <= 1
               /\ e[k].date - e[k + 1].date <= 1

(***************************************************************************)
(* C13: along the newest-first entry list of a pass the tier never         *)
(* decreases, no tier counting as below tier 0.                            *)
(***************************************************************************)
C13_TierMonotone ==
    \A i \in 1..Len(passes) :
      LET e == passes[i].entries
      IN  \A a \in 1..Len(e) : \A b \in 1..Len(e) :
            a < b => e[a].rule <= e[b].rule

(* A pass over a two-rule table whose list holds an entry without tier, an *)
(* entry of tier 0 and an entry of tier 1.                                 *)
C13_Witness ==
    \E i \in 1..Len(passes) :
      LET e == passes[i].entries
      IN  /\ passes[i].ok
          /\ Len(Spacings(passes[i])) = 2
          /\ \E a \in 1..Len(e) : e[a].rule = NoRule
          /\ \E a \in 1..Len(e) : e[a].rule = 0
          /\ \E a \in 1..Len(e) : e[a].rule = 1

(***************************************************************************)
(* C14: in a dry run no snapshot command and no delete command is ever     *)
(* executed, the commands are printed instead, and no step of the run      *)
(* changes the content of a snapshot directory.                            *)
(***************************************************************************)
StoreCommands == {"snapshot", "delete"}

C14_DryRunTouchesNothing ==
    /\ [](dry_run =>
            /\ \A k \in 1..Len(cmds) : cmds[k][1] \notin StoreCommands
            /\ taken => \E k \in 1..Len(printed) : printed[k][1] = "snapshot"
            /\ \A i \in 1..Len(passes) :
                 \A f \in Range(passes[i].delete) :
                   <<"delete", f>> \in Range(printed))
    /\ [][dry_run => disk' = disk]_vars

(* A finished dry run that took a snapshot and rotated, its pass having    *)
(* marked a file: both commands were printed.                              *)
C14_Witness ==
    /\ dry_run
    /\ pc = "done"
    /\ do_take /\ do_rotate
    /\ \E k \in 1..Len(printed) : printed[k][1] = "snapshot"
    /\ \E i \in 1..Len(passes) :
         /\ passes[i].delete # <<>>
         /\ <<"delete", passes[i].delete[1]>> \in Range(printed)

(***************************************************************************)
(* The anchor a sweep with the given min_spacing holds when it reaches     *)
(* entry k of the newest-first list e: the newest entry at first, and from *)
(* then on the last entry before k that was not within min_spacing of both *)
(* the anchor of its time and its older neighbour.                         *)
(***************************************************************************)
RECURSIVE AnchorAt(_, _, _)
AnchorAt(e, min_spacing, k) ==
    IF k <= 2 THEN 1
    ELSE LET a == AnchorAt(e, min_spacing, k - 1)
         IN  IF /\ e[a].date - e[k - 1].date < min_spacing
                /\ e[k - 1].date - e[k].date < min_spacing
             THEN a
             ELSE k - 1

(* The entries the sweep for tier r of the sorted table is to mark: those  *)
(* of tier r that are within min_spacing of both the anchor and the next   *)
(* older entry of the full list.                                           *)
TooClose(e, table, r) ==
    {e[k].file : k \in {j \in 2..(Len(e) - 1) :
       /\ e[j].rule = r
       /\ e[AnchorAt(e, table[r + 1][2], j)].date - e[j].date < table[r + 1][2]
       /\ e[j].date - e[j + 1].date < table[r + 1][2]}}

(***************************************************************************)
(* C15: the sweep for tier r marks exactly the entries of tier r for which *)
(* max(anchor - current, current - older) < rule[r].min_spacing, and never *)
(* an entry of another tier; the delete set of the pass is what the sweeps *)
(* marked.                                                                 *)
(***************************************************************************)
C15_MarkedExactlyWhenTooClose ==
    \A i \in 1..Len(passes) :
      LET e     == passes[i].entries
          table == SortSpacings(Spacings(passes[i]))
      IN  Len(e) >= 2 =>
            /\ \A r \in 0..(Len(table) - 1) :
                 Range(Sweep(e, r, table[r + 1][2], <<>>)) = TooClose(e, table, r)
            /\ Range(passes[i].delete)
                 = UNION {TooClose(e, table, r) : r \in 0..(Len(table) - 1)}

(* A finished run over a two-rule table in which an entry of tier 0 was    *)
(* deleted and an entry of another tier, within the min_spacing of tier 0  *)
(* of both its neighbours in the list, was kept.                           *)
C15_Witness ==
    \E i \in 1..Len(passes) :
      LET e     == passes[i].entries
          table == SortSpacings(Spacings(passes[i]))
      IN  /\ passes[i].ok
          /\ ~dry_run
          /\ pc = "done"
          /\ Len(table) = 2
          /\ \E k \in 2..(Len(e) - 1) :
               /\ e[k].rule = 0
               /\ e[k].file \in Range(passes[i].delete)
          /\ \E k \in 2..(Len(e) - 1) :
               /\ e[k].rule # 0
               /\ e[k].file \notin Range(passes[i].delete)
               /\ e[k - 1].date - e[k].date < table[1][2]
               /\ e[k].date - e[k + 1].date < table[1][2]

(***************************************************************************)
(* C16: main handles the selected configs one after another, take before   *)
(* rotate for each, and calls unmount once, after the last of them: no     *)
(* call follows the unmount, no call for a config follows a call for a     *)
(* later one, and an umount command is run only once the loop is over,     *)
(* with no other command after it.                                         *)
(***************************************************************************)
C16_OneTargetAtATimeUnmountLast ==
    /\ \A a \in 1..Len(calls) : \A b \in 1..Len(calls) :
         a < b =>
           /\ calls[a][1] # "unmount"
           /\ calls[b][1] # "unmount" =>
                \/ calls[a][2] < calls[b][2]
                \/ /\ calls[a][2] = calls[b][2]
                   /\ calls[a][1] = "take"
                   /\ calls[b][1] = "rotate"
    /\ \A k \in 1..Len(calls) :
         calls[k][1] = "unmount" => idx > Len(snapshots)
    /\ \A a \in 1..Len(cmds) :
         cmds[a][1] = "umount" =>
           /\ calls # <<>>
           /\ calls[Len(calls)][1] = "unmount"
           /\ \A b \in a..Len(cmds) : cmds[b][1] = "umount"

(* A finished run over two configs on two mount points, both taken and     *)
(* rotated, whose two mounts were unmounted at the end.                    *)
C16_Witness ==
    /\ pc = "done"
    /\ calls = <<<<"take", 1>>, <<"rotate", 1>>, <<"take", 2>>, <<"rotate", 2>>,
                 <<"unmount", 0>>>>
    /\ Attempts("umount", "/mnt/a") = 1
    /\ Attempts("umount", "/mnt/b") = 1

(***************************************************************************)
(* The tier of an age by the table as declared: with pairwise distinct     *)
(* min_age, the largest index of the ascending table whose min_age is not  *)
(* above the age is the number of such rules less one, and there is no     *)
(* tier (NoRule) when there is no such rule.                               *)
(***************************************************************************)
ReferenceTier(declared, age) ==
    Cardinality({j \in 1..Len(declared) : declared[j][1] <= age}) - 1

(***************************************************************************)
(* C17: every entry of a pass has the tier of the reference definition:    *)
(* the largest index t of the table sorted ascending by min_age with       *)
(* rule[t].min_age <= age, and none exactly when the age is below the      *)
(* smallest min_age.                                                       *)
(***************************************************************************)
C17_TierIsReferenceTier ==
    \A i \in 1..Len(passes) :
      LET e        == passes[i].entries
          declared == Spacings(passes[i])
      IN  \A k \in 1..Len(e) :
            /\ e[k].rule = ReferenceTier(declared, passes[i].now - e[k].date)
            /\ e[k].rule = NoRule <=>
                 \A j \in 1..Len(declared) :
                   passes[i].now - e[k].date < declared[j][1]

(* A pass over a table declared older rule first, with an entry both rules *)
(* admit, an entry only the younger rule admits and an entry neither       *)
(* admits.                                                                 *)
C17_Witness ==
    \E i \in 1..Len(passes) :
      LET e        == passes[i].entries
          declared == Spacings(passes[i])
      IN  /\ passes[i].ok
          /\ Len(declared) = 2
          /\ declared[1][1] > declared[2][1]
          /\ \E k \in 1..Len(e) : passes[i].now - e[k].date >= declared[1][1]
          /\ \E k \in 1..Len(e) :
               /\ passes[i].now - e[k].date >= declared[2][1]
               /\ passes[i].now - e[k].date < declared[1][1]
          /\ \E k \in 1..Len(e) : passes[i].now - e[k].date < declared[2][1]

(***************************************************************************)
(* C18: the first and the last entry of the newest-first list of a pass,   *)
(* its newest and its oldest entry, are never in the delete set.           *)
(***************************************************************************)
C18_EndsNeverDeleted ==
    \A i \in 1..Len(passes) :
      LET e == passes[i].entries
      IN  Len(e) >= 1 =>
            /\ e[1].file \notin Range(passes[i].delete)
            /\ e[Len(e)].file \notin Range(passes[i].delete)

(* A finished run whose pass deleted an entry while its newest and its     *)
(* oldest entry, both governed by a rule, were each within that rule's     *)
(* min_spacing of their only neighbour.                                    *)
C18_Witness ==
    \E i \in 1..Len(passes) :
      LET e     == passes[i].entries
          table == SortSpacings(Spacings(passes[i]))
          n     == Len(e)
      IN  /\ passes[i].ok
          /\ ~dry_run
          /\ pc = "done"
          /\ passes[i].delete # <<>>
          /\ e[1].rule # NoRule
          /\ e[n].rule # NoRule
          /\ e[1].date - e[2].date < table[e[1].rule + 1][2]
          /\ e[n - 1].date - e[n].date < table[e[n].rule + 1][2]

(***************************************************************************)
(* C19: in every sweep of a pass the anchor is an entry the pass keeps:    *)
(* no entry that is the anchor at some point of the sweep for some tier is *)
(* in the delete set of the pass.                                          *)
(***************************************************************************)
C19_AnchorSurvives ==
    \A i \in 1..Len(passes) :
      LET e     == passes[i].entries
          table == SortSpacings(Spacings(passes[i]))
      IN  \A r \in 0..(Len(table) - 1) :
            \A a \in SweepAnchors(e, r, table[r + 1][2]) :
              e[a].file \notin Range(passes[i].delete)

(***************************************************************************)
(* The delete set the sweeps leave when the tiers are swept in the given   *)
(* order, each sweep walking the whole list and adding to the set of the   *)
(* sweeps before it.                                                       *)
(***************************************************************************)
RECURSIVE SweepInOrder(_, _, _, _)
SweepInOrder(entries, table, order, delete) ==
    IF order = <<>> THEN delete
    ELSE SweepInOrder(entries, table, Tail(order),
                      Sweep(entries, Head(order), table[Head(order) + 1][2], delete))

(* The orders in which the tiers of a table can be swept.                  *)
TierOrders(table) ==
    {o \in [1..Len(table) -> 0..(Len(table) - 1)] :
       \A a \in 1..Len(table) : \A b \in 1..Len(table) : o[a] = o[b] => a = b}

(***************************************************************************)
(* C20: the sweeps of a pass are independent: the delete set of the pass   *)
(* is the union of what each tier's sweep marks when run alone on the full *)
(* list, and it is the set the sweeps leave in any order of the tiers.     *)
(***************************************************************************)
C20_SweepsIndependent ==
    \A i \in 1..Len(passes) :
      LET e     == passes[i].entries
          table == SortSpacings(Spacings(passes[i]))
      IN  Len(e) >= 2 =>
            /\ Range(passes[i].delete)
                 = UNION {Range(Sweep(e, r, table[r + 1][2], <<>>)) :
                            r \in 0..(Len(table) - 1)}
            /\ \A o \in TierOrders(table) :
                 Range(SweepInOrder(e, table, o, <<>>)) = Range(passes[i].delete)

(* A finished run over a two-rule table in which both sweeps marked an     *)
(* entry and the sweep of tier 1 took an entry that the sweep of tier 0    *)
(* had marked as its anchor.                                               *)
C20_Witness ==
    \E i \in 1..Len(passes) :
      LET e     == passes[i].entries
          table == SortSpacings(Spacings(passes[i]))
      IN  /\ passes[i].ok
          /\ ~dry_run
          /\ pc = "done"
          /\ Len(table) = 2
          /\ Sweep(e, 0, table[1][2], <<>>) # <<>>
          /\ Sweep(e, 1, table[2][2], <<>>) # <<>>
          /\ \E a \in SweepAnchors(e, 1, table[2][2]) :
               e[a].file \in Range(Sweep(e, 0, table[1][2], <<>>))
====
